---------------------------- MODULE Spec2Model ----------------------------
(***************************************************************************)
(* Model of jobspy_server.py: the two MCP tools search_jobs and            *)
(* get_job_sites, the external collaborator scrape_jobs, and the           *)
(* transport that invokes the tools (possibly concurrently).               *)
(*                                                                         *)
(* Python values are tagged records, one field name per Python type:       *)
(*   None  -> [none |-> TRUE]      str   -> [str |-> "text"]               *)
(*   int   -> [int |-> n]          bool  -> [bool |-> b]                   *)
(*   float -> [float |-> "repr"]   list  -> [list |-> <<...>>]             *)
(* Site names (the strings .lower() is applied to) are sequences of        *)
(* one-character strings, so that lower() is computed character by         *)
(* character.  Dictionaries (the caller's arguments, kwargs, the rows of   *)
(* the DataFrame, the returned structures) are functions from key strings. *)
(***************************************************************************)
EXTENDS Integers, Sequences, FiniteSets, TLC

VARIABLES
    pc,        \* pc[p]: position of invocation slot p
    request,   \* request[p]: the arguments the caller supplied (a dict)
    frame,     \* frame[p]: the local variables of the running call
    response,  \* response[p]: what scrape_jobs answered to this call
    calls,     \* calls[p]: number of scrape_jobs calls made by this invocation
    result,    \* result[p]: what the tool returned to the transport
    tool       \* tool[p]: which tool the transport invoked in slot p

vars == <<pc, request, frame, response, calls, result, tool>>

----------------------------------------------------------------------------
(* Bounds *)

NumProcs == 2      \* concurrent invocation slots of the transport
MaxSites == 2      \* longest caller-supplied site_name list
MaxRows  == 3      \* most rows of a scraped table

Procs == 1..NumProcs

----------------------------------------------------------------------------
(* Python values *)

None   == [none |-> TRUE]
S(x)   == [str |-> x]
I(n)   == [int |-> n]
B(b)   == [bool |-> b]
F(x)   == [float |-> x]
L(s)   == [list |-> s]

IsNone(v)  == "none"  \in DOMAIN v
IsStr(v)   == "str"   \in DOMAIN v
IsInt(v)   == "int"   \in DOMAIN v
IsBool(v)  == "bool"  \in DOMAIN v
IsFloat(v) == "float" \in DOMAIN v
IsList(v)  == "list"  \in DOMAIN v

EmptyDict == [k \in {} |-> None]

\* Python truth value testing, as used by `if location:` etc.
Truthy(v) ==
    CASE IsNone(v)  -> FALSE
      [] IsStr(v)   -> v.str # ""
      [] IsInt(v)   -> v.int # 0
      [] IsBool(v)  -> v.bool
      [] IsFloat(v) -> v.float # "0.0"
      [] IsList(v)  -> v.list # <<>>

\* str(value) of a float: Python prints every NaN as 'nan'
StrOfFloat(v) == v.float

----------------------------------------------------------------------------
(* str.lower() on ASCII text *)

UpperChars == <<"A","B","C","D","E","F","G","H","I","J","K","L","M",
                "N","O","P","Q","R","S","T","U","V","W","X","Y","Z">>
LowerChars == <<"a","b","c","d","e","f","g","h","i","j","k","l","m",
                "n","o","p","q","r","s","t","u","v","w","x","y","z">>

LowerChar(c) ==
    IF \E i \in 1..Len(UpperChars) : UpperChars[i] = c
    THEN LowerChars[CHOOSE i \in 1..Len(UpperChars) : UpperChars[i] = c]
    ELSE c

Lower(s) == [i \in 1..Len(s) |-> LowerChar(s[i])]

----------------------------------------------------------------------------
(* String literals of the source that name sites *)

linkedin      == <<"l","i","n","k","e","d","i","n">>
indeed        == <<"i","n","d","e","e","d">>
zip_recruiter == <<"z","i","p","_","r","e","c","r","u","i","t","e","r">>
glassdoor     == <<"g","l","a","s","s","d","o","o","r">>
google        == <<"g","o","o","g","l","e">>

----------------------------------------------------------------------------
(* search_jobs: pure parts *)

ParamNames == {"search_term", "location", "site_name", "results_wanted",
               "hours_old", "country_indeed", "job_type", "is_remote",
               "distance", "linkedin_fetch_description", "offset"}

\* default values of the signature; search_term has none (it is required)
Defaults ==
    [location |-> S(""), site_name |-> None, results_wanted |-> I(20),
     hours_old |-> I(72), country_indeed |-> S("USA"), job_type |-> None,
     is_remote |-> None, distance |-> I(50),
     linkedin_fetch_description |-> B(FALSE), offset |-> I(0)]

\* Python's binding of the call's arguments to the parameters
BindParams(req) ==
    [n \in ParamNames |-> IF n \in DOMAIN req THEN req[n] ELSE Defaults[n]]

\* mutant: the default in the order of the catalog
DefaultSiteNameCatalogOrder(site_name) ==
    IF IsNone(site_name) THEN L(<<linkedin, indeed, zip_recruiter>>)
    ELSE site_name

\* if site_name is None: site_name = ["indeed", "linkedin", "zip_recruiter"]
DefaultSiteName(site_name) ==
    IF IsNone(site_name) THEN L(<<indeed, linkedin, zip_recruiter>>)
    ELSE site_name

\* mutant: the validation list lacks a site the catalog names
valid_sites_without_google == <<linkedin, indeed, zip_recruiter, glassdoor>>

valid_sites == <<linkedin, indeed, zip_recruiter, glassdoor, google>>

\* Python's `x in lst`
InList(x, lst) == \E i \in 1..Len(lst) : lst[i] = x

\* mutant: the comparison without .lower()
SiteIsValidExactCase(site) == InList(site, valid_sites)

\* mutant: no validation
SiteIsValidAlways(site) == TRUE

\* the condition of the comprehension: site.lower() in valid_sites
SiteIsValid(site) == InList(Lower(site), valid_sites)

\* what the comprehension yields for an element that passes: the element
KeptSite(site) == site

\* [site for site in site_name if site.lower() in valid_sites]
RECURSIVE FilterSites(_)
FilterSites(sites) ==
    IF sites = <<>> THEN <<>>
    ELSE (IF SiteIsValid(Head(sites)) THEN <<KeptSite(Head(sites))>> ELSE <<>>)
         \o FilterSites(Tail(sites))

NoValidSitesResult ==
    [error |-> S("No valid job sites provided"), jobs |-> L(<<>>)]

\* the dict literal of lines 60-68
BaseKwargs(f) ==
    [site_name |-> f.site_name, search_term |-> f.search_term,
     results_wanted |-> f.results_wanted, hours_old |-> f.hours_old,
     country_indeed |-> f.country_indeed,
     linkedin_fetch_description |-> f.linkedin_fetch_description,
     offset |-> f.offset]

\* the four conditions of lines 71-77
AddLocation(f)  == Truthy(f.location)
AddJobType(f)   == Truthy(f.job_type)
AddIsRemote(f)  == ~IsNone(f.is_remote)
AddDistance(f)  == Truthy(f.distance)

OptionalKwargs(f) ==
    (IF AddLocation(f) THEN "location" :> f.location ELSE EmptyDict) @@
    (IF AddJobType(f)  THEN "job_type" :> f.job_type ELSE EmptyDict) @@
    (IF AddIsRemote(f) THEN "is_remote" :> f.is_remote ELSE EmptyDict) @@
    (IF AddDistance(f) THEN "distance" :> f.distance ELSE EmptyDict)

BuildKwargs(f) == BaseKwargs(f) @@ OptionalKwargs(f)

\* mutant: the first row taken for a header and skipped
ToDictRecordsSkipFirst(df) ==
    [i \in 1..(Len(df.rows) - (IF df.rows = <<>> THEN 0 ELSE 1)) |->
        [c \in {df.columns[j] : j \in 1..Len(df.columns)} |->
            df.rows[i + 1][CHOOSE j \in 1..Len(df.columns) : df.columns[j] = c]]]

\* DataFrame.to_dict('records'): one dict per row, keyed by column name
RowToDict(columns, row) ==
    [c \in {columns[j] : j \in 1..Len(columns)} |->
        row[CHOOSE j \in 1..Len(columns) : columns[j] = c]]

ToDictRecords(df) ==
    [i \in 1..Len(df.rows) |-> RowToDict(df.columns, df.rows[i])]

\* mutant: str(value) == 'nan' without the isinstance test
IsNaNIgnoringType(value) ==
    \/ IsFloat(value) /\ StrOfFloat(value) = "nan"
    \/ IsStr(value) /\ value.str = "nan"

\* isinstance(value, float) and str(value) == 'nan'
IsNaN(value) == IsFloat(value) /\ StrOfFloat(value) = "nan"

CleanValue(value) == IF IsNaN(value) THEN None ELSE value

\* the two nested loops of lines 89-92, on one record
CleanJob(job) == [key \in DOMAIN job |-> CleanValue(job[key])]

CleanJobs(jobs_list) == [i \in 1..Len(jobs_list) |-> CleanJob(jobs_list[i])]

\* len(x) of Python
PyLen(seq) == Len(seq)

\* mutant: search_params echoes what was forwarded, kwargs.get(...)
SuccessResultEchoForwarded(f) ==
    [jobs |-> L(f.jobs_list),
     count |-> I(PyLen(f.jobs_list)),
     search_params |->
        [search_term |-> f.search_term,
         location |-> IF "location" \in DOMAIN f.kwargs
                      THEN f.kwargs.location ELSE None,
         sites |-> f.site_name, results_wanted |-> f.results_wanted,
         hours_old |-> f.hours_old]]

SuccessResult(f) ==
    [jobs |-> L(f.jobs_list),
     count |-> I(PyLen(f.jobs_list)),
     search_params |->
        [search_term |-> f.search_term, location |-> f.location,
         sites |-> f.site_name, results_wanted |-> f.results_wanted,
         hours_old |-> f.hours_old]]

\* mutant: a narrower except clause
CaughtConnectionErrorOnly(e) == e.is_exception /\ e.type = "ConnectionError"

\* except Exception as e: which raised objects the clause catches
Caught(e) == e.is_exception

ErrorResult(e) == [error |-> S(e.text), jobs |-> L(<<>>)]

----------------------------------------------------------------------------
(* get_job_sites *)

SiteCatalog ==
    [sites |-> L(<<
        [name |-> linkedin,
         description |-> S("LinkedIn Jobs - Professional networking platform with extensive job listings")],
        [name |-> indeed,
         description |-> S("Indeed - One of the largest job search engines worldwide")],
        [name |-> zip_recruiter,
         description |-> S("ZipRecruiter - Job search platform with smart matching technology")],
        [name |-> glassdoor,
         description |-> S("Glassdoor - Job listings with company reviews and salary information")],
        [name |-> google,
         description |-> S("Google Jobs - Aggregated job listings from across the web")]>>),
     note |-> S("You can search multiple sites simultaneously by passing a list of site names")]

----------------------------------------------------------------------------
(* The state machine: the transport invokes a tool in a free slot, the     *)
(* tool body runs block by block, scrape_jobs answers, the transport       *)
(* takes the outcome.                                                      *)

Nothing == [nothing |-> TRUE]

\* mutant: the variable is a module-level one, shared by the running calls
StoreShared(fr, p, name, value) ==
    [q \in DOMAIN fr |->
        IF q = p \/ name \in DOMAIN fr[q]
        THEN (name :> value) @@ fr[q] ELSE fr[q]]

\* assignment to a local variable of the call running in slot p
StoreLocal(fr, p, name, value) ==
    [fr EXCEPT ![p] = (name :> value) @@ fr[p]]

Init ==
    /\ pc       = [p \in Procs |-> "idle"]
    /\ tool     = [p \in Procs |-> "none"]
    /\ request  = [p \in Procs |-> EmptyDict]
    /\ frame    = [p \in Procs |-> EmptyDict]
    /\ response = [p \in Procs |-> Nothing]
    /\ calls    = [p \in Procs |-> 0]
    /\ result   = [p \in Procs |-> Nothing]

\* the transport calls search_jobs(**req): parameters are bound (lines 10-22)
CallSearchJobs(p, req) ==
    /\ pc[p] = "idle"
    /\ pc'      = [pc EXCEPT ![p] = "l47"]
    /\ tool'    = [tool EXCEPT ![p] = "search_jobs"]
    /\ request' = [request EXCEPT ![p] = req]
    /\ frame'   = [frame EXCEPT ![p] = BindParams(req)]
    /\ UNCHANGED <<response, calls, result>>

\* lines 46-48
SetDefaultSites(p) ==
    /\ pc[p] = "l47"
    /\ frame' = StoreLocal(frame, p, "site_name",
                           DefaultSiteName(frame[p].site_name))
    /\ pc' = [pc EXCEPT ![p] = "l51"]
    /\ UNCHANGED <<request, response, calls, result, tool>>

\* lines 50-55
ValidateSites(p) ==
    /\ pc[p] = "l51"
    /\ LET filtered == L(FilterSites(frame[p].site_name.list))
       IN  /\ frame' = StoreLocal(frame, p, "site_name", filtered)
           /\ IF ~Truthy(filtered)
              THEN /\ result' = [result EXCEPT ![p] = NoValidSitesResult]
                   /\ pc' = [pc EXCEPT ![p] = "returned"]
              ELSE /\ pc' = [pc EXCEPT ![p] = "l60"]
                   /\ UNCHANGED result
    /\ UNCHANGED <<request, response, calls, tool>>

\* lines 59-78
BuildArguments(p) ==
    /\ pc[p] = "l60"
    /\ frame' = StoreLocal(frame, p, "kwargs", BuildKwargs(frame[p]))
    /\ pc' = [pc EXCEPT ![p] = "l81"]
    /\ UNCHANGED <<request, response, calls, result, tool>>

\* line 81: scrape_jobs(**kwargs) is entered
Delegate(p) ==
    /\ pc[p] = "l81"
    /\ calls' = [calls EXCEPT ![p] = @ + 1]
    /\ pc' = [pc EXCEPT ![p] = "scraping"]
    /\ UNCHANGED <<request, frame, response, result, tool>>

\* line 81: scrape_jobs returns a value or raises
ScrapeAnswers(p, answer) ==
    /\ pc[p] = "scraping"
    /\ response' = [response EXCEPT ![p] = answer]
    /\ IF "raise" \in DOMAIN answer
       THEN /\ frame' = StoreLocal(frame, p, "e", answer.raise)
            /\ pc' = [pc EXCEPT ![p] = "raised"]
       ELSE /\ frame' = StoreLocal(frame, p, "jobs_df", answer.ret)
            /\ pc' = [pc EXCEPT ![p] = "l83"]
    /\ UNCHANGED <<request, calls, result, tool>>

\* what len(jobs_df) / jobs_df.to_dict raise on a value that is no DataFrame
NotADataFrameError ==
    [type |-> "TypeError", is_exception |-> TRUE,
     text |-> "object of type 'NoneType' has no len()"]

\* lines 83-94
Convert(p) ==
    /\ pc[p] = "l83"
    /\ IF IsNone(frame[p].jobs_df)
       THEN /\ frame' = StoreLocal(frame, p, "e", NotADataFrameError)
            /\ pc' = [pc EXCEPT ![p] = "raised"]
       ELSE /\ frame' = StoreLocal(frame, p, "jobs_list",
                           CleanJobs(ToDictRecords(frame[p].jobs_df.df)))
            /\ pc' = [pc EXCEPT ![p] = "l96"]
    /\ UNCHANGED <<request, response, calls, result, tool>>

\* lines 96-106
ReturnSuccess(p) ==
    /\ pc[p] = "l96"
    /\ result' = [result EXCEPT ![p] = SuccessResult(frame[p])]
    /\ pc' = [pc EXCEPT ![p] = "returned"]
    /\ UNCHANGED <<request, frame, response, calls, tool>>

\* lines 108-112: the except clause matches
HandleException(p) ==
    /\ pc[p] = "raised"
    /\ Caught(frame[p].e)
    /\ result' = [result EXCEPT ![p] = ErrorResult(frame[p].e)]
    /\ pc' = [pc EXCEPT ![p] = "returned"]
    /\ UNCHANGED <<request, frame, response, calls, tool>>

\* line 108: the except clause does not match, the raised object leaves
\* search_jobs
PropagateFault(p) ==
    /\ pc[p] = "raised"
    /\ ~Caught(frame[p].e)
    /\ pc' = [pc EXCEPT ![p] = "fault"]
    /\ UNCHANGED <<request, frame, response, calls, result, tool>>

\* lines 115-146
GetJobSites(p) ==
    /\ pc[p] = "idle"
    /\ tool' = [tool EXCEPT ![p] = "get_job_sites"]
    /\ result' = [result EXCEPT ![p] = SiteCatalog]
    /\ pc' = [pc EXCEPT ![p] = "returned"]
    /\ UNCHANGED <<request, frame, response, calls>>

\* the transport takes the outcome; the call's objects are discarded
Respond(p) ==
    /\ pc[p] \in {"returned", "fault"}
    /\ pc'       = [pc EXCEPT ![p] = "idle"]
    /\ tool'     = [tool EXCEPT ![p] = "none"]
    /\ request'  = [request EXCEPT ![p] = EmptyDict]
    /\ frame'    = [frame EXCEPT ![p] = EmptyDict]
    /\ response' = [response EXCEPT ![p] = Nothing]
    /\ calls'    = [calls EXCEPT ![p] = 0]
    /\ result'   = [result EXCEPT ![p] = Nothing]

----------------------------------------------------------------------------
(* Inputs: what callers send and what scrape_jobs answers *)

INDEED   == <<"I","N","D","E","E","D">>
LinkedIn == <<"L","i","n","k","e","d","I","n">>
monster  == <<"m","o","n","s","t","e","r">>

SiteInputs == {indeed, INDEED, LinkedIn, monster}

SeqsUpTo(T, n) == UNION {[1..k -> T] : k \in 0..n}

\* one optional argument: left out, or given one of the values
Optional(name, values) == {EmptyDict} \cup {name :> v : v \in values}

SiteNameArgs ==
    Optional("site_name", {None} \cup {L(s) : s \in SeqsUpTo(SiteInputs, MaxSites)})

\* the arguments search_jobs only passes on: all left out, or all given
PassedOnArgs ==
    {EmptyDict,
     [results_wanted |-> I(5), hours_old |-> I(0), country_indeed |-> S("UK"),
      linkedin_fetch_description |-> B(TRUE), offset |-> I(3)]}

Requests ==
    {st @@ sn @@ lo @@ jt @@ ir @@ di @@ po :
        st \in {"search_term" :> S("nurse"), "search_term" :> S("data analyst")},
        sn \in SiteNameArgs,
        lo \in Optional("location", {S(""), S("New York, NY")}),
        jt \in Optional("job_type", {None, S("fulltime")}),
        ir \in Optional("is_remote", {None, B(FALSE), B(TRUE)}),
        di \in Optional("distance", {I(0), I(25)}),
        po \in PassedOnArgs}

\* failures scrape_jobs can raise: an Exception, and a BaseException that is
\* no Exception
ConnectionFailure ==
    [type |-> "ConnectionError", is_exception |-> TRUE,
     text |-> "Max retries exceeded"]
Interrupt ==
    [type |-> "KeyboardInterrupt", is_exception |-> FALSE, text |-> ""]

Columns == <<"title", "min_amount">>

RowValues ==
    {<<ti, am>> : ti \in {S("Nurse"), S("nan")},
                  am \in {F("nan"), F("50000.0"), None}}

DataFrame(rows) == [df |-> [columns |-> Columns, rows |-> rows]]

Failures == {[raise |-> ConnectionFailure], [raise |-> Interrupt]}

\* few answers, for the runs that vary the request
Answers ==
    Failures \cup
    {[ret |-> DataFrame(<<>>)],
     [ret |-> DataFrame(<<<<S("Nurse"), F("nan")>>>>)]}

\* every table of up to MaxRows rows, a result that is no table, the failures
TableAnswers ==
    Failures \cup {[ret |-> None]} \cup
    {[ret |-> DataFrame(rows)] : rows \in SeqsUpTo(RowValues, MaxRows)}

FewRequests ==
    {[search_term |-> S("nurse")],
     [search_term |-> S("data analyst"), site_name |-> L(<<INDEED, monster>>),
      location |-> S("")],
     [search_term |-> S("nurse"), site_name |-> L(<<monster>>)]}

FewAnswers ==
    Failures \cup
    {[ret |-> None], [ret |-> DataFrame(<<<<S("nan"), F("nan")>>>>)]}

----------------------------------------------------------------------------
(* Specifications *)

Run(P, Reqs, Answ) ==
    \E p \in P :
        \/ pc[p] = "idle" /\ \E req \in Reqs : CallSearchJobs(p, req)
        \/ SetDefaultSites(p)
        \/ ValidateSites(p)
        \/ BuildArguments(p)
        \/ Delegate(p)
        \/ pc[p] = "scraping" /\ \E answer \in Answ : ScrapeAnswers(p, answer)
        \/ Convert(p)
        \/ ReturnSuccess(p)
        \/ HandleException(p)
        \/ PropagateFault(p)
        \/ GetJobSites(p)
        \/ Respond(p)

\* one invocation at a time, every request
Next == Run({1}, Requests, Answers)
Spec == Init /\ [][Next]_vars

\* one invocation at a time, every table
NextTables == Run({1}, FewRequests, TableAnswers)
SpecTables == Init /\ [][NextTables]_vars

\* invocations in every slot, interleaved
NextConcurrent == Run(Procs, FewRequests, FewAnswers)
SpecConcurrent == Init /\ [][NextConcurrent]_vars

----------------------------------------------------------------------------
(* Vocabulary of the properties *)

InSearch(p)   == tool[p] = "search_jobs"
Returned(p)   == InSearch(p) /\ pc[p] = "returned"
Delegated(p)  == InSearch(p) /\ calls[p] > 0
Succeeded(p)  == Returned(p) /\ "search_params" \in DOMAIN result[p]
Supplied(p, name) == name \in DOMAIN request[p]

DefaultSequence == <<indeed, linkedin, zip_recruiter>>
SiteIdentifiers == {linkedin, indeed, zip_recruiter, glassdoor, google}
Recognised(site) == Lower(site) \in SiteIdentifiers

SiteNameOmitted(p) ==
    ~Supplied(p, "site_name") \/ IsNone(request[p].site_name)
SiteNameEmpty(p) ==
    Supplied(p, "site_name") /\ IsList(request[p].site_name)
        /\ request[p].site_name.list = <<>>
SiteNameGiven(p) ==
    Supplied(p, "site_name") /\ IsList(request[p].site_name)

\* once validation has run, the sites in use are the default sequence
UsesDefaultSequence(p) ==
    pc[p] \notin {"idle", "l47", "l51"} =>
        /\ frame[p].site_name = L(DefaultSequence)
        /\ Delegated(p) => frame[p].kwargs.site_name = L(DefaultSequence)
        /\ Succeeded(p) => result[p].search_params.sites = L(DefaultSequence)

----------------------------------------------------------------------------
\* C1 (as stated): a request whose site_name is omitted (null) or is an
\* empty sequence uses exactly [indeed, linkedin, zip_recruiter], in that
\* order, for delegation and in search_params.sites.
C1_AsStated ==
    \A p \in Procs :
        InSearch(p) /\ (SiteNameOmitted(p) \/ SiteNameEmpty(p))
            => UsesDefaultSequence(p)

\* C1 (amended): a request whose site_name is omitted or null uses exactly
\* [indeed, linkedin, zip_recruiter] for delegation and in
\* search_params.sites; an empty sequence gets no default: the call returns
\* the "No valid job sites provided" error and never delegates.
C1_Amended ==
    \A p \in Procs :
        /\ InSearch(p) /\ SiteNameOmitted(p) => UsesDefaultSequence(p)
        /\ InSearch(p) /\ SiteNameEmpty(p) =>
              /\ calls[p] = 0
              /\ pc[p] \in {"l47", "l51", "returned"}
              /\ pc[p] = "returned" =>
                    result[p] = [error |-> S("No valid job sites provided"),
                                 jobs |-> L(<<>>)]

C1_Witness ==
    /\ Succeeded(1) /\ ~Supplied(1, "site_name")
    /\ result[1].search_params.sites = L(DefaultSequence)
    /\ frame[1].kwargs.site_name = L(DefaultSequence)

----------------------------------------------------------------------------
\* the entries of a caller's list that match a site identifier
\* case-insensitively, in input order
Matching(sites) == SelectSeq(sites, Recognised)
LowerEach(sites) == [i \in 1..Len(sites) |-> Lower(sites[i])]

\* C2 (as stated): the site_name search_jobs delegates with holds the
\* lowercase canonical form of each entry of the caller's list that matches
\* a site identifier case-insensitively, once per occurrence, in input order.
C2_AsStated ==
    \A p \in Procs :
        Delegated(p) /\ SiteNameGiven(p) =>
            frame[p].kwargs.site_name =
                L(LowerEach(Matching(request[p].site_name.list)))

\* C2 (amended): the site_name search_jobs delegates with holds each entry
\* of the caller's list that matches a site identifier case-insensitively,
\* spelled as the caller spelled it (not lowercased), once per occurrence,
\* in input order; the other entries are dropped.
C2_Amended ==
    \A p \in Procs :
        Delegated(p) /\ SiteNameGiven(p) =>
            frame[p].kwargs.site_name = L(Matching(request[p].site_name.list))

C2_Witness ==
    /\ Delegated(1) /\ SiteNameGiven(1)
    /\ request[1].site_name = L(<<INDEED, monster>>)
    /\ frame[1].kwargs.site_name = L(<<INDEED>>)

----------------------------------------------------------------------------
Failed(p) == InSearch(p) /\ "e" \in DOMAIN frame[p]

ErrorShape(p) ==
    result[p] = [error |-> S(frame[p].e.text), jobs |-> L(<<>>)]

----------------------------------------------------------------------------
OnlyUnrecognised(p) ==
    /\ SiteNameGiven(p)
    /\ request[p].site_name.list # <<>>
    /\ \A i \in 1..Len(request[p].site_name.list) :
          ~Recognised(request[p].site_name.list[i])

\* C4: a non-empty caller-supplied site list holding only unrecognised
\* identifiers makes search_jobs return exactly
\* {error: "No valid job sites provided", jobs: []}, and scrape_jobs is
\* never called during that invocation.
C4_NoValidSites ==
    \A p \in Procs :
        InSearch(p) /\ OnlyUnrecognised(p) =>
            /\ calls[p] = 0
            /\ pc[p] \in {"l47", "l51", "returned"}
            /\ pc[p] = "returned" =>
                  result[p] = [error |-> S("No valid job sites provided"),
                               jobs |-> L(<<>>)]

C4_Witness ==
    /\ Returned(1) /\ calls[1] = 0 /\ OnlyUnrecognised(1)
    /\ request[1].site_name = L(<<monster>>)
    /\ result[1].error = S("No valid job sites provided")

----------------------------------------------------------------------------
AlwaysForwarded ==
    {"site_name", "search_term", "results_wanted", "hours_old",
     "country_indeed", "linkedin_fetch_description", "offset"}

\* the caller supplied a truthy / non-null value for the field
SuppliedValue(p, name) ==
    /\ Supplied(p, name)
    /\ IF name = "is_remote" THEN ~IsNone(request[p][name])
       ELSE Truthy(request[p][name])

ForwardedOnlyIfSupplied(p, name) ==
    name \in DOMAIN frame[p].kwargs =>
        SuppliedValue(p, name) /\ frame[p].kwargs[name] = request[p][name]

\* C5: in every delegation the seven arguments site_name, search_term,
\* results_wanted, hours_old, country_indeed, linkedin_fetch_description and
\* offset are present, and each of location, job_type, is_remote, distance
\* is present only when the caller supplied a truthy / non-null value for
\* it; a field the caller did not supply is never forwarded as a default.
C5_AsStated ==
    \A p \in Procs :
        Delegated(p) =>
            /\ AlwaysForwarded \subseteq DOMAIN frame[p].kwargs
            /\ \A name \in {"location", "job_type", "is_remote", "distance"} :
                  ForwardedOnlyIfSupplied(p, name)

\* C5, the part the code keeps: location, job_type and is_remote
C5_ExceptDistance ==
    \A p \in Procs :
        Delegated(p) =>
            /\ AlwaysForwarded \subseteq DOMAIN frame[p].kwargs
            /\ \A name \in {"location", "job_type", "is_remote"} :
                  /\ ForwardedOnlyIfSupplied(p, name)
                  /\ SuppliedValue(p, name) => name \in DOMAIN frame[p].kwargs
            /\ "distance" \in DOMAIN frame[p].kwargs =>
                  \/ SuppliedValue(p, "distance")
                  \/ ~Supplied(p, "distance") /\ frame[p].kwargs.distance = I(50)

----------------------------------------------------------------------------
\* the table scrape_jobs returned to the call in slot p
RawTable(p) == response[p].ret.df
ColumnSet(p) == {RawTable(p).columns[j] : j \in 1..Len(RawTable(p).columns)}
NaNSentinel == F("nan")

\* C6: after a successful delegation, for every record and every field of
\* the table: a raw not-a-number value is returned as null, every other raw
\* value is returned unchanged under the same field name; no field is added
\* or omitted and the records keep their order.
C6_NaNBecomesNull ==
    \A p \in Procs :
        Succeeded(p) =>
            /\ Len(result[p].jobs.list) = Len(RawTable(p).rows)
            /\ \A i \in 1..Len(RawTable(p).rows) :
                  /\ DOMAIN result[p].jobs.list[i] = ColumnSet(p)
                  /\ \A j \in 1..Len(RawTable(p).columns) :
                        LET raw == RawTable(p).rows[i][j]
                            got == result[p].jobs.list[i][RawTable(p).columns[j]]
                        IN  IF raw = NaNSentinel THEN got = None ELSE got = raw

C6_Witness ==
    /\ Succeeded(1)
    /\ RawTable(1).rows = <<<<S("nan"), F("nan")>>, <<S("Nurse"), F("50000.0")>>>>
    /\ result[1].jobs.list =
          <<[title |-> S("nan"), min_amount |-> None],
            [title |-> S("Nurse"), min_amount |-> F("50000.0")]>>

----------------------------------------------------------------------------
\* C7: in every successful result count equals the length of jobs, and
\* that length is the number of rows scrape_jobs returned.
C7_CountIsLength ==
    \A p \in Procs :
        Succeeded(p) =>
            /\ result[p].count = I(Len(result[p].jobs.list))
            /\ Len(result[p].jobs.list) = Len(RawTable(p).rows)

\* three rows, one of them with a not-a-number salary
C7_Witness ==
    /\ Succeeded(1)
    /\ Len(RawTable(1).rows) = 3
    /\ RawTable(1).rows[2][2] = F("nan")
    /\ result[1].count = I(3)
    /\ Len(result[1].jobs.list) = 3
    /\ result[1].jobs.list[2].min_amount = None

----------------------------------------------------------------------------
\* the value the caller gave for a parameter, or the signature's default
Effective(p, name, default) ==
    IF Supplied(p, name) THEN request[p][name] ELSE default

\* C8: in every successful result search_params holds search_term,
\* results_wanted and hours_old as used in the delegation, location exactly
\* as the caller supplied it (the empty text included, although it was not
\* forwarded), and sites equal to the filtered sequence passed as site_name.
C8_EchoesRequest ==
    \A p \in Procs :
        Succeeded(p) =>
            LET sp == result[p].search_params
                kw == frame[p].kwargs
            IN  /\ DOMAIN sp = {"search_term", "location", "sites",
                                "results_wanted", "hours_old"}
                /\ sp.search_term = kw.search_term
                /\ sp.search_term = request[p].search_term
                /\ sp.results_wanted = kw.results_wanted
                /\ sp.results_wanted = Effective(p, "results_wanted", I(20))
                /\ sp.hours_old = kw.hours_old
                /\ sp.hours_old = Effective(p, "hours_old", I(72))
                /\ sp.location = Effective(p, "location", S(""))
                /\ sp.sites = kw.site_name

C8_Witness ==
    /\ Succeeded(1)
    /\ Supplied(1, "location") /\ request[1].location = S("")
    /\ "location" \notin DOMAIN frame[1].kwargs
    /\ result[1].search_params.location = S("")
    /\ Supplied(1, "hours_old") /\ result[1].search_params.hours_old = I(0)

----------------------------------------------------------------------------
(* What one call gives when it runs alone: the blocks of search_jobs in    *)
(* program order, on the call's own request and answer.                    *)

SoloSites(req) ==
    L(FilterSites(DefaultSiteName(BindParams(req).site_name).list))

SoloFrame(req) == [BindParams(req) EXCEPT !.site_name = SoloSites(req)]

SoloKwargs(req) == BuildKwargs(SoloFrame(req))

SoloResult(req, answer) ==
    IF ~Truthy(SoloSites(req)) THEN NoValidSitesResult
    ELSE IF "raise" \in DOMAIN answer THEN ErrorResult(answer.raise)
    ELSE IF IsNone(answer.ret) THEN ErrorResult(NotADataFrameError)
    ELSE SuccessResult(("kwargs" :> SoloKwargs(req)) @@
                       ("jobs_list" :> CleanJobs(ToDictRecords(answer.ret.df))) @@
                       SoloFrame(req))

SlotState(p) ==
    <<pc[p], tool[p], request[p], frame[p], response[p], calls[p], result[p]>>

\* C9: concurrent invocations are independent.  Under every interleaving,
\* each invocation's result and the arguments it delegates with are those
\* the same request and answer give alone; a step of one invocation changes
\* nothing of another; the caller's arguments (its site list included) are
\* never changed during the call; a call with site_name omitted gets the
\* unmodified default sequence.
C9_Independent ==
    /\ [](\A p \in Procs :
            /\ Returned(p) => result[p] = SoloResult(request[p], response[p])
            /\ Delegated(p) => frame[p].kwargs = SoloKwargs(request[p])
            /\ Delegated(p) /\ SiteNameOmitted(p) =>
                  frame[p].kwargs.site_name = L(DefaultSequence))
    /\ [][\A p \in Procs : pc'[p] = pc[p] => SlotState(p)' = SlotState(p)]_vars
    /\ [][\A p \in Procs :
            pc[p] # "idle" /\ pc'[p] # "idle" => request'[p] = request[p]]_vars

C9_Witness ==
    /\ Succeeded(1) /\ ~Supplied(1, "site_name")
    /\ result[1].search_params.sites = L(DefaultSequence)
    /\ InSearch(2) /\ pc[2] = "scraping" /\ SiteNameGiven(2)
    /\ request[2].site_name = L(<<INDEED, monster>>)
    /\ frame[2].kwargs.site_name = L(<<INDEED>>)

----------------------------------------------------------------------------
InCatalog(p) == tool[p] = "get_job_sites"

CatalogNames(p) ==
    [i \in 1..Len(result[p].sites.list) |-> result[p].sites.list[i].name]

\* the site identifiers search_jobs accepts: those its validation list holds
AcceptedSites == {valid_sites[i] : i \in 1..Len(valid_sites)}

\* C10: get_job_sites takes no input and returns, on every call and after
\* any earlier calls, the same catalog: exactly the 5 entries linkedin,
\* indeed, zip_recruiter, glassdoor, google in that order and the same
\* note; it has no failure outcome; the set of its names is the set of site
\* identifiers search_jobs accepts as valid.
C10_FixedCatalog ==
    \A p \in Procs :
        InCatalog(p) =>
            /\ pc[p] = "returned"
            /\ request[p] = EmptyDict
            /\ calls[p] = 0
            /\ DOMAIN result[p] = {"sites", "note"}
            /\ Len(result[p].sites.list) = 5
            /\ CatalogNames(p) =
                  <<linkedin, indeed, zip_recruiter, glassdoor, google>>
            /\ \A i \in 1..Len(result[p].sites.list) :
                  /\ DOMAIN result[p].sites.list[i] = {"name", "description"}
                  /\ IsStr(result[p].sites.list[i].description)
            /\ result[p].note = S("You can search multiple sites simultaneously by passing a list of site names")
            /\ {CatalogNames(p)[i] : i \in 1..5} = AcceptedSites
            /\ \A q \in Procs : InCatalog(q) => result[q] = result[p]

\* a catalog call answered while a search that failed is still in its slot
C10_Witness ==
    /\ InCatalog(1) /\ pc[1] = "returned"
    /\ Len(result[1].sites.list) = 5
    /\ Returned(2) /\ Failed(2)

=============================================================================
